---------------------------- MODULE Spec2Model ----------------------------
(***************************************************************************)
(* The view-lineage resolver of src/data_lineage.py: the regex dependency  *)
(* extractor, the recursive builder build_full_lineage (as an explicit     *)
(* call stack), the catalog fetches with their failure paths, and the      *)
(* report rendered by run_data_lineage_ui; and the credential store of     *)
(* src/connector.py over st.session_state.                                 *)
(*                                                                         *)
(* Strings are sequences of one-character strings, so that the regular     *)
(* expression, str.split and str.strip are computed character by           *)
(* character.                                                              *)
(***************************************************************************)
EXTENDS Naturals, Sequences, FiniteSets, TLC

VARIABLES
    catalog,              \* the external Teradata catalog (views and columns)
    pc,                   \* "idle" | "resolving" | "done" | "stopped"
    view_name,            \* the root typed into st.text_input
    stack,                \* the Python call stack of build_full_lineage
    G,                    \* nx.DiGraph: [nodes, edges]
    visited,              \* set of names
    ddl_dict,             \* insertion-ordered dict: sequence of [key, val]
    table_metadata_dict,  \* insertion-ordered dict: sequence of [key, val]
    calls,                \* log of the catalog fetches made, in order
    errors,               \* st.error advisories: the fetches that threw
    report,               \* what the request rendered
    rerun,                \* an earlier request of the session has been served
    view_sql_arg,         \* extract_dependencies alone: its argument
    dependencies,         \* extract_dependencies alone: the list it returned
    session_state,        \* st.session_state: the keys the connector writes
    stored,               \* log of the store_credentials calls made, in order
    answer                \* what the last read of the connector returned

\* The variables of a lineage request.
lineageVars == <<catalog, pc, view_name, stack, G, visited, ddl_dict,
                 table_metadata_dict, calls, errors, report, rerun>>

\* The variables of a call of extract_dependencies on its own.
extractVars == <<view_sql_arg, dependencies>>

\* The variables of the credential store.
connVars == <<session_state, stored, answer>>

\* The variables a lineage request leaves alone.
asideVars == <<extractVars, connVars>>

vars == <<lineageVars, extractVars, connVars>>

-----------------------------------------------------------------------------
(* Bounds of the model *)

\* Largest ring of mutually referencing views among the catalogs.
MaxRing == 3

\* Most fetches that may throw during one request.
MaxFaults == 1

\* Deepest call stack explored (the code's own depth is at most the number
\* of distinct names, which is below this).
MaxDepth == 6

\* Clauses after the SELECT list of a text given to extract_dependencies alone.
MaxClauses == 3

\* Most store_credentials calls of one session.
MaxStores == 3

-----------------------------------------------------------------------------
(* Characters and strings *)

UpperSeq == <<"A","B","C","D","E","F","G","H","I","J","K","L","M",
              "N","O","P","Q","R","S","T","U","V","W","X","Y","Z">>

LowerSeq == <<"a","b","c","d","e","f","g","h","i","j","k","l","m",
              "n","o","p","q","r","s","t","u","v","w","x","y","z">>

Digits == {"0","1","2","3","4","5","6","7","8","9"}

Range(s) == { s[i] : i \in DOMAIN s }

WordChars == Range(UpperSeq) \cup Range(LowerSeq) \cup Digits \cup {"_"}

\* re: \w
IsWordChar(c) == c \in WordChars

\* re: [\w\.]
IsIdentChar(c) == IsWordChar(c) \/ c = "."

\* re: \s ; str.strip() whitespace
IsSpace(c) == c \in {" ", "\t", "\n", "\r"}

FoldMap ==
    [c \in Range(UpperSeq) |->
        LowerSeq[CHOOSE i \in DOMAIN UpperSeq : UpperSeq[i] = c]]

\* re.IGNORECASE folding of one character
ToLower(c) == IF c \in DOMAIN FoldMap THEN FoldMap[c] ELSE c

\* re: \b before position i (1-based) of text
WordBoundary(text, i) ==
    LET before == i > 1 /\ i - 1 <= Len(text) /\ IsWordChar(text[i - 1])
        after  == i >= 1 /\ i <= Len(text) /\ IsWordChar(text[i])
    IN  before # after

\* The four-letter keyword kw (lower case) stands at position i, any case.
KeywordAt(text, i, kw) ==
    /\ i + Len(kw) - 1 <= Len(text)
    /\ \A k \in 1..Len(kw) : ToLower(text[i + k - 1]) = kw[k]

\* First position >= i whose character does not satisfy the class.
RunEnd(text, i, space) ==
    LET end[k \in 1..(Len(text) + 1)] ==
            IF k > Len(text) THEN k
            ELSE IF (space /\ IsSpace(text[k])) \/ (~space /\ IsIdentChar(text[k]))
                 THEN end[k + 1]
                 ELSE k
    IN  IF i > Len(text) THEN i ELSE end[i]

\* str.strip()
RECURSIVE Strip(_)
Strip(s) ==
    IF s = <<>> THEN s
    ELSE IF IsSpace(Head(s)) THEN Strip(Tail(s))
    ELSE IF IsSpace(s[Len(s)]) THEN Strip(SubSeq(s, 1, Len(s) - 1))
    ELSE s

kwFrom == <<"f","r","o","m">>

\* Mutant: the second alternative of the pattern is \bAS\s+([\w\.]+).
kwAs == <<"a","s">>
kwJoin == <<"j","o","i","n">>

\* One alternative of the pattern, \bKW\s+([\w\.]+), tried at position i:
\* [ok, group, end] with end the position after the match.
MatchAt(text, i, kw) ==
    LET ws   == i + Len(kw)
        id   == RunEnd(text, ws, TRUE)
        stop == RunEnd(text, id, FALSE)
    IN  IF /\ WordBoundary(text, i)
           /\ KeywordAt(text, i, kw)
           /\ id > ws
           /\ stop > id
        THEN [ok |-> TRUE, group |-> SubSeq(text, id, stop - 1), end |-> stop]
        ELSE [ok |-> FALSE, group |-> <<>>, end |-> i]

\* re.findall(pattern, view_sql, re.IGNORECASE): the non-empty groups of the
\* non-overlapping matches found scanning from position i. The scan goes to
\* the first position at or after k where an alternative matches (the
\* position after the text: none), FROM tried first, and goes on after the
\* end of that match.
FindAll(text, i) ==
    LET Hit(p) == MatchAt(text, p, kwFrom).ok \/ MatchAt(text, p, kwJoin).ok
        first[k \in 1..(Len(text) + 1)] ==
            CHOOSE p \in k..(Len(text) + 1) :
                /\ p = Len(text) + 1 \/ Hit(p)
                /\ \A q \in k..(p - 1) : ~Hit(q)
        at[p \in 1..Len(text)] ==
            LET f == MatchAt(text, p, kwFrom)
                j == MatchAt(text, p, kwJoin)
            IN  IF f.ok THEN f ELSE j
        found[p \in 1..(Len(text) + 1)] ==
            IF p > Len(text) THEN <<>>
            ELSE <<at[p].group>> \o found[first[at[p].end]]
    IN  IF i > Len(text) THEN <<>> ELSE found[first[i]]

extract_dependencies(view_sql) ==
    { Strip(m) : m \in Range(FindAll(view_sql, 1)) }

-----------------------------------------------------------------------------
(* Names and SQL texts of the catalogs *)

nA == <<"A">>
nB == <<"B">>
nC == <<"C">>
nD == <<"D">>
nE == <<"E">>
nF == <<"F">>
nT == <<"T">>
nLowT == <<"t">>
nO == <<"o">>
nSO == <<"s", ".", "o">>
nDbcO == <<"d", "b", "c", ".", "o">>
nABC == <<"a", ".", "b", ".", "c">>
nGhost == <<"g", "h">>
nX == <<"x">>

\* The names of the views of the rings, in ring order.
Pool == <<nA, nB, nC, nD, nE, nF>>

\* The names a user may type as the root, and the catalogs may mention.
Names == Range(Pool) \cup {nT, nLowT, nO, nSO, nDbcO, nABC, nGhost, nX}

SelectStar == <<"S","E","L","E","C","T"," ","*">>
From(n) == <<" ","F","R","O","M"," ">> \o n
Join(n) == <<" ","J","O","I","N"," ">> \o n
LowFrom(n) == <<"\n","f","r","o","m","\t"," ">> \o n
LowJoin(n) == <<"\n","j","o","i","n"," ">> \o n
Where == <<" ","W","H","E","R","E"," ","1","=","1",";">>
SelectOne == <<"S","E","L","E","C","T"," ","1">>
\* FROM ( <inner> ) AS x
FromDerived(inner, alias) ==
    <<" ","F","R","O","M"," ","(">> \o inner \o <<")"," ","A","S"," ">> \o alias

cols3 == <<"c1", "c2", "c3">>
cols1 == <<"c1">>

NoTables == [p \in {} |-> <<>>]

\* A ring of k views: Pool[i] selects from Pool[i+1], the last from Pool[1].
CatRing(k) ==
    [views  |-> [n \in { Pool[i] : i \in 1..k } |->
                    LET at == CHOOSE j \in 1..k : Pool[j] = n
                    IN  SelectStar \o From(Pool[(at % k) + 1])],
     tables |-> NoTables]

\* A -> {B, C}, B -> D, C -> D, and D a base table of the fallback schema.
CatDiamond ==
    [views  |-> (nA :> (SelectStar \o From(nB) \o Join(nC) \o Where))
             @@ (nB :> (SelectStar \o From(nD)))
             @@ (nC :> (SelectStar \o LowFrom(nD) \o Where)),
     tables |-> (<<<<"d","b","c">>, nD>> :> cols1)]

\* A -> B -> C, all three views, C with no dependency.
CatChain ==
    [views  |-> (nA :> (SelectStar \o From(nB)))
             @@ (nB :> (SelectStar \o LowFrom(nC) \o Where))
             @@ (nC :> SelectOne),
     tables |-> NoTables]

\* A view over a qualified table, a bare table, a dangling name and a name
\* with two dots; E has an empty definition and is a table, B a second view.
CatFallback ==
    [views  |-> (nA :> (SelectStar \o From(nSO) \o Join(nGhost) \o Join(nO)
                          \o Join(nB)))
             @@ (nB :> (SelectStar \o From(nO) \o LowJoin(nABC) \o Join(nE)))
             @@ (nE :> <<>>),
     tables |-> (<<<<"s">>, <<"o">>>> :> cols3)
             @@ (<<<<"d","b","c">>, <<"o">>>> :> cols1)
             @@ (<<<<"a">>, <<"b",".","c">>>> :> cols1)
             @@ (<<<<"d","b","c">>, nE>> :> cols3)
             @@ (<<<<"d","b","c">>, nA>> :> cols1)]

\* Names that differ only in case, and the bare and qualified name of one table.
CatCase ==
    [views  |-> (nA :> (SelectStar \o From(nT) \o Join(nLowT)))
             @@ (nB :> (SelectStar \o From(nO) \o Join(nDbcO) \o Join(nO))),
     tables |-> (<<<<"d","b","c">>, nT>> :> cols1)
             @@ (<<<<"d","b","c">>, nLowT>> :> cols3)
             @@ (<<<<"d","b","c">>, <<"o">>>> :> cols3)]

\* A derived table with an alias.
CatAlias ==
    [views  |-> (nA :> (SelectStar \o FromDerived(SelectStar \o From(nB), nX)))
             @@ (nB :> SelectOne),
     tables |-> NoTables]

\* A references B and C, and B references A back and the table D.
CatBack ==
    [views  |-> (nA :> (SelectStar \o From(nB) \o Join(nC)))
             @@ (nB :> (SelectStar \o From(nA) \o LowJoin(nD)))
             @@ (nC :> SelectOne),
     tables |-> (<<<<"d","b","c">>, nD>> :> cols1)]

Catalogs ==
    { CatRing(k) : k \in 1..MaxRing }
        \cup {CatDiamond, CatChain, CatFallback, CatCase, CatAlias, CatBack}

-----------------------------------------------------------------------------
(* The catalog collaborator: src/data_lineage.py fetch_* over the catalog *)

None == [some |-> FALSE, val |-> <<>>]
Some(v) == [some |-> TRUE, val |-> v]

\* Python truthiness of a fetch result: not None and not empty.
Truthy(r) == r.some /\ r.val # <<>>

\* How one fetch may go: the query answers, the query throws, or
\* get_teradata_connection returned None.
Outcomes == {"ok", "throws", "noconn"}

\* fetch_view_definition(view_name) when the query answers.
fetch_view_definition(cat, name) ==
    IF name \in DOMAIN cat.views THEN Some(cat.views[name]) ELSE None

\* fetch_table_metadata(database_name, table_name) when the query answers.
fetch_table_metadata(cat, db, tbl) ==
    IF <<db, tbl>> \in DOMAIN cat.tables /\ cat.tables[<<db, tbl>>] # <<>>
    THEN Some(cat.tables[<<db, tbl>>])
    ELSE None

-----------------------------------------------------------------------------
(* Helpers of build_full_lineage *)

FallbackSchema == <<"d", "b", "c">>

\* '.' in view_name
HasDot(name) == \E i \in DOMAIN name : name[i] = "."

\* Mutant: the name is split at its last dot (rsplit).
SplitNameLast(name) ==
    IF HasDot(name)
    THEN LET i == CHOOSE i \in DOMAIN name :
                    /\ name[i] = "."
                    /\ \A j \in (i + 1)..Len(name) : name[j] # "."
         IN  <<SubSeq(name, 1, i - 1), SubSeq(name, i + 1, Len(name))>>
    ELSE <<FallbackSchema, name>>

\* view_name.split('.', 1), or the fallback schema for a bare name.
SplitName(name) ==
    IF HasDot(name)
    THEN LET i == CHOOSE i \in DOMAIN name :
                    /\ name[i] = "."
                    /\ \A j \in 1..(i - 1) : name[j] # "."
         IN  <<SubSeq(name, 1, i - 1), SubSeq(name, i + 1, Len(name))>>
    ELSE <<FallbackSchema, name>>

\* Mutant: the visited check folds the case of the names.
AlreadyVisitedFolded(name, vis) ==
    \E v \in vis : [i \in DOMAIN v |-> ToLower(v[i])]
                       = [i \in DOMAIN name |-> ToLower(name[i])]

\* Mutant: the visited check is lost.
AlreadyVisitedNever(name, vis) == FALSE

\* if view_name in visited
AlreadyVisited(name, vis) == name \in vis

\* Mutant: an assignment to a key of the dict is lost.
DictSetLost(d, k, v) == d

\* d[k] = v on an insertion-ordered dict.
DictSet(d, k, v) ==
    IF \E i \in DOMAIN d : d[i].key = k
    THEN [i \in DOMAIN d |-> IF d[i].key = k THEN [key |-> k, val |-> v] ELSE d[i]]
    ELSE Append(d, [key |-> k, val |-> v])

\* list(d.keys())
Keys(d) == [i \in DOMAIN d |-> d[i].key]

KeySet(d) == { d[i].key : i \in DOMAIN d }

\* d[k]
DictGet(d, k) == d[CHOOSE i \in DOMAIN d : d[i].key = k].val

EmptyGraph == [nodes |-> {}, edges |-> {}]

\* Mutant: the edge is added from the dependent to the dependency.
AddEdgeReversed(g, u, v) ==
    [nodes |-> g.nodes \cup {u, v}, edges |-> g.edges \cup {<<v, u>>}]

\* graph.add_edge(u, v) of a DiGraph: both end points become nodes.
AddEdge(g, u, v) ==
    [nodes |-> g.nodes \cup {u, v}, edges |-> g.edges \cup {<<u, v>>}]

CallFrame(name) == [kind |-> "call", name |-> name, todo |-> {}]
LoopFrame(name, deps) == [kind |-> "loop", name |-> name, todo |-> deps]
TableFrame(name) == [kind |-> "table", name |-> name, todo |-> {}]

Top == stack[Len(stack)]
Pop == SubSeq(stack, 1, Len(stack) - 1)
ReplaceTop(f) == Append(Pop, f)

Threw == { i \in DOMAIN calls : calls[i].outcome = "throws" }

\* Mutant: what the query throws is not caught, and the answer is used.
CaughtNever(oc) == FALSE

\* `except Exception` of the fetch catches what the query throws (lines 38, 58).
Caught(oc) == oc = "throws"

\* Mutant: what the query throws is not caught either and ends the run.
StopsOnAnyFailure(oc) == oc # "ok"

\* `if connection is None: st.stop()` (lines 27-28, 46-47): the script-control
\* exception of st.stop derives from BaseException and is not caught.
Stops(oc) == oc = "noconn"

\* Mutant: whatever the table lookup returned is recorded.
HasMetadataAlways(m) == TRUE

\* metadata is not None and not metadata.empty (line 94)
HasMetadata(m) == m.some /\ m.val # <<>>

\* The dependencies the running loop has still to iterate.
CurrentDeps == IF stack # <<>> /\ Top.kind = "loop" THEN Top.todo ELSE {}

\* The outcomes one more fetch may have.
MayBe(oc) == oc \in Outcomes /\ (oc = "throws" => Cardinality(Threw) < MaxFaults)

-----------------------------------------------------------------------------
(* The credential store: src/connector.py over st.session_state. Its      *)
(* strings are TLA+ strings, joined with \o as the f-strings join them.     *)

\* The source types of source_key_map (lines 103-107).
SourceTypes == {"teradata", "azuresql", "databricks"}

\* The credential keys each source type is stored and read with
\* (lines 60, 73, 87, 119-124, 132, 143, 152).
KeysOf ==
    [s \in SourceTypes |->
        CASE s = "teradata"   -> <<"host", "user", "password">>
          [] s = "azuresql"   -> <<"server", "database", "user", "password">>
          [] s = "databricks" -> <<"workspace_url", "access_token">>]

\* Connection names typed into "Enter New Connection Name".
ConnNames == {"a", "a_b"}

\* Connection names read: the stored ones and the default of the
\* get_*_connection functions, which nobody stored.
ReadNames == ConnNames \cup {"default"}

\* What the fields of the form hold at a save: every field its own text, of
\* a first or of a later filling.
Fillings == {"1", "2"}
Filled(s, g) == [k \in Range(KeysOf[s]) |-> k \o "=" \o g]

\* The values of st.session_state: a Fernet token, a list of names, a string.
Token(key, iv, plain) ==
    [kind |-> "token", key |-> key, iv |-> iv, plain |-> plain, items |-> <<>>]
ListValue(items) ==
    [kind |-> "list", key |-> "", iv |-> 0, plain |-> "", items |-> items]
StrValue(str) ==
    [kind |-> "str", key |-> "", iv |-> 0, plain |-> str, items |-> <<>>]

EmptySession == [x \in {} |-> StrValue("")]

\* st.session_state["encryption_key"], loaded once (lines 21-24).
FernetKey == "fernet.key"

\* fernet.encrypt: a fresh token each time, under the key (lines 27-28).
encrypt_credential(credential, iv) == Token(FernetKey, iv, credential)

\* fernet.decrypt, or "" for what is not a token of the key (lines 30-34).
decrypt_credential(encrypted_credential) ==
    IF encrypted_credential.kind = "token" /\ encrypted_credential.key = FernetKey
    THEN encrypted_credential.plain
    ELSE ""

\* Mutant: the connection name is left out of the key.
SessionKeyOfSource(source_type, conn_name, key) == source_type \o "_" \o key

\* f"{source_type}_{conn_name}_{key}" (lines 39, 49)
SessionKey(source_type, conn_name, key) ==
    source_type \o "_" \o conn_name \o "_" \o key

\* f"{source_type}_connections" (lines 40, 55)
ListKey(source_type) == source_type \o "_connections"

\* st.session_state.get(key, default)
StateGet(ss, key, default) == IF key \in DOMAIN ss THEN ss[key] ELSE default

\* Mutant: the name is appended at every save.
TrackAlways(items, conn_name) == Append(items, conn_name)

\* if conn_name not in list: list.append(conn_name) (lines 43-44)
Track(items, conn_name) ==
    IF conn_name \in Range(items) THEN items ELSE Append(items, conn_name)

\* store_credentials(source_type, conn_name, **kwargs) (lines 37-44); iv
\* numbers the tokens of the call.
store_credentials(ss, source_type, conn_name, kwargs, iv) ==
    LET written == { SessionKey(source_type, conn_name, k) : k \in DOMAIN kwargs }
        ss1 == [x \in DOMAIN ss \cup written |->
                  IF x \in written
                  THEN encrypt_credential(
                         kwargs[CHOOSE k \in DOMAIN kwargs :
                                   SessionKey(source_type, conn_name, k) = x], iv)
                  ELSE ss[x]]
        conn_list_key == ListKey(source_type)
        ss2 == IF conn_list_key \notin DOMAIN ss1
               THEN (conn_list_key :> ListValue(<<>>)) @@ ss1
               ELSE ss1
    IN  [ss2 EXCEPT ![conn_list_key] =
            ListValue(Track(ss2[conn_list_key].items, conn_name))]

\* get_credentials(source_type, conn_name, keys) (lines 47-51)
get_credentials(ss, source_type, conn_name, keys) ==
    [key \in Range(keys) |->
        decrypt_credential(
            StateGet(ss, SessionKey(source_type, conn_name, key), StrValue("")))]

\* get_saved_connections(source_type) (lines 54-55)
get_saved_connections(ss, source_type) ==
    StateGet(ss, ListKey(source_type), ListValue(<<>>)).items

NoAnswer == [fn |-> "none", source |-> "", conn |-> "", creds |-> <<>>, conns |-> <<>>]

-----------------------------------------------------------------------------
(* The state machine *)

NoReport == [kind |-> "none", views |-> <<>>, tables |-> <<>>]

Init ==
    /\ catalog \in Catalogs
    /\ pc = "idle"
    /\ view_name = <<>>
    /\ stack = <<>>
    /\ G = EmptyGraph
    /\ visited = {}
    /\ ddl_dict = <<>>
    /\ table_metadata_dict = <<>>
    /\ calls = <<>>
    /\ errors = <<>>
    /\ report = NoReport
    /\ rerun = FALSE
    /\ view_sql_arg = <<>>
    /\ dependencies = None
    /\ session_state = EmptySession
    /\ stored = <<>>
    /\ answer = NoAnswer

\* Mutant: the visited set of the earlier request is kept.
KeptVisited == visited

\* visited = set() (line 116)
FreshVisited == {}

\* The button is clicked with a view name typed in: fresh structures, and
\* the first call of build_full_lineage (lines 114-120).
Generate(name) ==
    /\ pc \in {"idle", "done", "stopped"}
    /\ name # <<>>
    /\ pc' = "resolving"
    /\ view_name' = name
    /\ G' = EmptyGraph
    /\ visited' = FreshVisited
    /\ ddl_dict' = <<>>
    /\ table_metadata_dict' = <<>>
    /\ stack' = <<CallFrame(name)>>
    /\ calls' = <<>>
    /\ errors' = <<>>
    /\ report' = NoReport
    /\ rerun' = (pc # "idle")
    /\ UNCHANGED <<catalog, asideVars>>

\* st.stop() raised inside a fetch: a script-control exception that
\* `except Exception` does not catch; it unwinds every frame and ends the run.
Stopped(call) ==
    /\ pc' = "stopped"
    /\ stack' = <<>>
    /\ calls' = Append(calls, call)
    /\ errors' = Append(errors, [at |-> "connect", name |-> call.name])
    /\ UNCHANGED <<G, ddl_dict, table_metadata_dict, report>>

\* build_full_lineage is entered with a name already visited (lines 75-76).
ReturnVisited ==
    /\ pc = "resolving" /\ stack # <<>> /\ Top.kind = "call"
    /\ AlreadyVisited(Top.name, visited)
    /\ stack' = Pop
    /\ UNCHANGED <<catalog, pc, view_name, G, visited, ddl_dict,
                   table_metadata_dict, calls, errors, report, rerun, asideVars>>

\* Mutant: the name is not marked.
MarkVisitedLost(vis, name) == vis

\* visited.add(view_name) (line 77)
MarkVisited(vis, name) == vis \cup {name}

\* A new name: it is marked visited and its view definition fetched; a
\* definition is recorded and its dependencies extracted (lines 77-82).
FetchView(oc) ==
    /\ pc = "resolving" /\ stack # <<>> /\ Top.kind = "call"
    /\ ~AlreadyVisited(Top.name, visited)
    /\ MayBe(oc)
    /\ LET name == Top.name
           call == [fn |-> "view", name |-> name, args |-> <<name>>, outcome |-> oc]
           view_sql == IF Caught(oc) THEN None
                       ELSE fetch_view_definition(catalog, name)
       IN  /\ visited' = MarkVisited(visited, name)
           /\ IF Stops(oc)
              THEN Stopped(call)
              ELSE /\ calls' = Append(calls, call)
                   /\ errors' = IF Caught(oc)
                                THEN Append(errors, [at |-> "view", name |-> name])
                                ELSE errors
                   /\ IF Truthy(view_sql)
                      THEN /\ ddl_dict' = DictSet(ddl_dict, name, view_sql.val)
                           /\ stack' = ReplaceTop(
                                  LoopFrame(name, extract_dependencies(view_sql.val)))
                      ELSE /\ ddl_dict' = ddl_dict
                           /\ stack' = ReplaceTop(TableFrame(name))
                   /\ UNCHANGED <<pc, G, table_metadata_dict, report>>
    /\ UNCHANGED <<catalog, view_name, rerun, asideVars>>

\* Mutant: the call for the dependency is put off until the calls in
\* progress have returned, and the loop goes on.
PutOff(frame, dep) == <<CallFrame(dep)>> \o ReplaceTop(frame)

\* Mutant: the edge is added and the dependency is not resolved.
EdgeOnly(frame, dep) == ReplaceTop(frame)

\* build_full_lineage(dep, ...) inside the loop (line 85): the call runs, the
\* loop waits with what it has still to iterate.
Recurse(frame, dep) == Append(ReplaceTop(frame), CallFrame(dep))

\* `for dep in dependencies`: the edge is added and the dependency resolved
\* by a recursive call (lines 83-85). A set is iterated in no fixed order.
LoopNext(dep) ==
    /\ pc = "resolving" /\ stack # <<>> /\ Top.kind = "loop"
    /\ dep \in Top.todo
    /\ Len(stack) < MaxDepth
    /\ G' = AddEdge(G, dep, Top.name)
    /\ stack' = Recurse(LoopFrame(Top.name, Top.todo \ {dep}), dep)
    /\ UNCHANGED <<catalog, pc, view_name, visited, ddl_dict,
                   table_metadata_dict, calls, errors, report, rerun, asideVars>>

\* Mutant: after the loop the view falls through to the table lookup.
AfterLoopFallsThrough == ReplaceTop(TableFrame(Top.name))

\* The table lookup is the else branch of `if view_sql:` (line 86): after
\* the loop of a view the call returns.
AfterLoop == Pop

\* The loop over the dependencies is exhausted: the call returns.
LoopEnd ==
    /\ pc = "resolving" /\ stack # <<>> /\ Top.kind = "loop"
    /\ Top.todo = {}
    /\ stack' = AfterLoop
    /\ UNCHANGED <<catalog, pc, view_name, G, visited, ddl_dict,
                   table_metadata_dict, calls, errors, report, rerun, asideVars>>

\* No definition: the name is split and looked up as a table; non-empty
\* metadata is recorded, and the call returns (lines 86-95).
FetchTable(oc) ==
    /\ pc = "resolving" /\ stack # <<>> /\ Top.kind = "table"
    /\ MayBe(oc)
    /\ LET name == Top.name
           db_name == SplitName(name)[1]
           tbl_name == SplitName(name)[2]
           call == [fn |-> "table", name |-> name,
                    args |-> <<db_name, tbl_name>>, outcome |-> oc]
           metadata == IF Caught(oc) THEN None
                       ELSE fetch_table_metadata(catalog, db_name, tbl_name)
       IN  IF Stops(oc)
           THEN Stopped(call)
           ELSE /\ calls' = Append(calls, call)
                /\ errors' = IF Caught(oc)
                             THEN Append(errors, [at |-> "table", name |-> name])
                             ELSE errors
                /\ table_metadata_dict' =
                       IF HasMetadata(metadata)
                       THEN DictSet(table_metadata_dict, name, metadata.val)
                       ELSE table_metadata_dict
                /\ stack' = Pop
                /\ UNCHANGED <<pc, G, ddl_dict, report>>
    /\ UNCHANGED <<catalog, view_name, visited, rerun, asideVars>>

\* Mutant: only the view records are looked at.
HasLineageViewsOnly(ddl, tmd) == ddl # <<>>

\* if ddl_dict or table_metadata_dict (line 122)
HasLineage(ddl, tmd) == ddl # <<>> \/ tmd # <<>>

\* Mutant: the keys are listed without reversed().
ViewSectionsForward(ddl) == [i \in DOMAIN ddl |-> ddl[i].key]

\* reversed(list(ddl_dict.keys())) (line 129)
ViewSections(ddl) == [i \in DOMAIN ddl |-> Keys(ddl)[Len(ddl) + 1 - i]]

\* Mutant: the tables are listed last inserted first.
TableSectionsReversed(tmd) == [i \in DOMAIN tmd |-> tmd[Len(tmd) + 1 - i].key]

\* table_metadata_dict.items() (line 134)
TableSections(tmd) == Keys(tmd)

\* build_full_lineage has returned: the graph and the sections are rendered,
\* or the warning shown (lines 122-138).
Render ==
    /\ pc = "resolving" /\ stack = <<>>
    /\ pc' = "done"
    /\ report' = IF HasLineage(ddl_dict, table_metadata_dict)
                 THEN [kind |-> "report",
                       views |-> ViewSections(ddl_dict),
                       tables |-> TableSections(table_metadata_dict)]
                 ELSE [kind |-> "warning", views |-> <<>>, tables |-> <<>>]
    /\ UNCHANGED <<catalog, view_name, stack, G, visited, ddl_dict,
                   table_metadata_dict, calls, errors, rerun, asideVars>>

\* The steps of one request, which the script runs to completion.
Step ==
    \/ ReturnVisited
    \/ \E oc \in Outcomes : FetchView(oc)
    \/ \E dep \in CurrentDeps : LoopNext(dep)
    \/ LoopEnd
    \/ \E oc \in Outcomes : FetchTable(oc)
    \/ Render

Next ==
    \/ \E name \in Names : Generate(name)
    \/ Step

Spec == Init /\ [][Next]_vars

-----------------------------------------------------------------------------
(* extract_dependencies on its own, over a family of SQL texts *)

\* Derived tables: the table inside the parentheses, and the alias.
DerivedTables == { [inner |-> nB, alias |-> nX], [inner |-> nSO, alias |-> nT] }

\* FROM (SELECT * FROM <inner>) AS <alias>
DerivedClause(d) == FromDerived(SelectStar \o From(d.inner), d.alias)

\* The pieces a text is made of: FROM and JOIN clauses in either case, a
\* derived table with an alias, a WHERE clause, and a word that ends in FROM.
Clauses ==
    { From(n) : n \in {nB, nX} }
        \cup { LowJoin(n) : n \in {nB, nT} }
        \cup { DerivedClause(d) : d \in DerivedTables }
        \cup { Where, <<" ","x","F","R","O","M"," ">> \o nLowT }

Concat(cs) ==
    LET cat[k \in 0..Len(cs)] == IF k = 0 THEN <<>> ELSE cat[k - 1] \o cs[k]
    IN  cat[Len(cs)]

Texts ==
    { SelectStar \o Concat(cs) :
        cs \in UNION { [1..k -> Clauses] : k \in 0..MaxClauses } }

\* The lists that hold each member of the set once.
Orderings(S) == { l \in [1..Cardinality(S) -> S] : Range(l) = S }

\* Mutant: the matches are returned as found, without the set.
MatchesAsFound(view_sql) ==
    LET matches == FindAll(view_sql, 1)
    IN  { [i \in DOMAIN matches |-> Strip(matches[i])] }

\* return list(dependencies) (line 71): the members of the set, in the order
\* the set's hashing gives.
ListOfDependencies(view_sql) == Orderings(extract_dependencies(view_sql))

InitExtract ==
    /\ catalog = CatRing(1)
    /\ pc = "idle"
    /\ view_name = <<>>
    /\ stack = <<>>
    /\ G = EmptyGraph
    /\ visited = {}
    /\ ddl_dict = <<>>
    /\ table_metadata_dict = <<>>
    /\ calls = <<>>
    /\ errors = <<>>
    /\ report = NoReport
    /\ rerun = FALSE
    /\ view_sql_arg \in Texts
    /\ dependencies = None
    /\ session_state = EmptySession
    /\ stored = <<>>
    /\ answer = NoAnswer

\* extract_dependencies(view_sql) is called, for the first time or again.
Extract ==
    /\ \E l \in ListOfDependencies(view_sql_arg) : dependencies' = Some(l)
    /\ UNCHANGED <<view_sql_arg, lineageVars, connVars>>

NextExtract == Extract

SpecExtract == InitExtract /\ [][NextExtract]_vars

-----------------------------------------------------------------------------
(* The credential store on its own: saves and reads of one session *)

InitConnector ==
    /\ catalog = CatRing(1)
    /\ pc = "idle"
    /\ view_name = <<>>
    /\ stack = <<>>
    /\ G = EmptyGraph
    /\ visited = {}
    /\ ddl_dict = <<>>
    /\ table_metadata_dict = <<>>
    /\ calls = <<>>
    /\ errors = <<>>
    /\ report = NoReport
    /\ rerun = FALSE
    /\ view_sql_arg = <<>>
    /\ dependencies = None
    /\ session_state = EmptySession
    /\ stored = <<>>
    /\ answer = NoAnswer

\* A save button of run_connector_ui with every field filled
\* (lines 130-155): store_credentials is called.
Store(source_type, conn_name, g) ==
    /\ Len(stored) < MaxStores
    /\ session_state' = store_credentials(session_state, source_type, conn_name,
                                          Filled(source_type, g), Len(stored) + 1)
    /\ stored' = Append(stored, [source |-> source_type, conn |-> conn_name,
                                 kwargs |-> Filled(source_type, g)])
    /\ answer' = NoAnswer
    /\ UNCHANGED <<lineageVars, extractVars>>

\* get_credentials is called with the keys of the source type
\* (lines 60, 73, 87, 119-124).
GetCredentials(source_type, conn_name) ==
    /\ answer' = [fn |-> "get_credentials", source |-> source_type,
                  conn |-> conn_name,
                  creds |-> get_credentials(session_state, source_type, conn_name,
                                            KeysOf[source_type]),
                  conns |-> <<>>]
    /\ UNCHANGED <<lineageVars, extractVars, session_state, stored>>

\* get_saved_connections is called (line 109, and the other pages).
GetSavedConnections(source_type) ==
    /\ answer' = [fn |-> "get_saved_connections", source |-> source_type,
                  conn |-> "", creds |-> <<>>,
                  conns |-> get_saved_connections(session_state, source_type)]
    /\ UNCHANGED <<lineageVars, extractVars, session_state, stored>>

NextConnector ==
    \/ \E s \in SourceTypes, c \in ConnNames, g \in Fillings : Store(s, c, g)
    \/ \E s \in SourceTypes, c \in ReadNames : GetCredentials(s, c)
    \/ \E s \in SourceTypes : GetSavedConnections(s)

SpecConnector == InitConnector /\ [][NextConnector]_vars

\* The script is sequential and runs each request to its end.
FairSpec == Spec /\ WF_vars(Step)

-----------------------------------------------------------------------------
(* What the catalog says, independently of the traversal *)

\* The name is a view with a non-empty definition.
IsView(n) == Truthy(fetch_view_definition(catalog, n))

\* The names the definition of n references.
DepsOf(n) ==
    IF IsView(n)
    THEN extract_dependencies(fetch_view_definition(catalog, n).val)
    ELSE {}

\* The least set that contains S and the references of its views.
RECURSIVE Closure(_)
Closure(S) ==
    LET T == S \cup UNION { DepsOf(n) : n \in S }
    IN  IF T = S THEN S ELSE Closure(T)

\* The view lies on a cycle of references.
OnCycle(n) == IsView(n) /\ n \in Closure(DepsOf(n))

\* build_full_lineage(root) has returned to run_data_lineage_ui.
Returned == pc \in {"resolving", "done"} /\ stack = <<>>

\* Number of entries a dict holds for a key.
EntryCount(d, k) == Cardinality({ i \in DOMAIN d : d[i].key = k })

\* The fetches of one kind made for a name.
FetchesOf(fn, n) == { i \in DOMAIN calls : calls[i].fn = fn /\ calls[i].name = n }

-----------------------------------------------------------------------------
(* The claims *)

\* C1: for every catalog, cyclic ones included, a resolution that is running
\* comes to an end, and once build_full_lineage has returned with no fetch
\* having thrown, every view on a cycle that the root reaches has exactly one
\* entry in ddl_dict.
C1_CycleTerminates ==
    /\ (pc = "resolving") ~> (pc # "resolving")
    /\ [](Returned /\ Threw = {} =>
            \A n \in Closure({view_name}) :
                OnCycle(n) => EntryCount(ddl_dict, n) = 1)

\* C1 witness: a finished request over two views that reference each other.
C1_Witness ==
    /\ pc = "done" /\ Threw = {}
    /\ \E a, b \in KeySet(ddl_dict) :
          a # b /\ a \in DepsOf(b) /\ b \in DepsOf(a) /\ OnCycle(view_name)

\* C2: during one request each name's view definition is fetched at most
\* once and its table metadata at most once, and once the builder has
\* returned every visited name had its definition fetched exactly once.
C2_FetchedOnce ==
    /\ \A i \in DOMAIN calls :
          /\ Cardinality(FetchesOf("view", calls[i].name)) <= 1
          /\ Cardinality(FetchesOf("table", calls[i].name)) <= 1
    /\ Returned => \A n \in visited : Cardinality(FetchesOf("view", n)) = 1

\* C2 witness: the diamond, resolved: D is referenced by B and by C, and its
\* definition was fetched once.
C2_Witness ==
    /\ pc = "done" /\ catalog = CatDiamond /\ view_name = nA
    /\ {<<nD, nB>>, <<nD, nC>>} \subseteq G.edges
    /\ Cardinality(FetchesOf("view", nD)) = 1

\* C3: when build_full_lineage has returned, the edges of the graph are
\* exactly the pairs (dep, v) with v a recorded view and dep extracted from
\* its recorded definition.
C3_EdgesExact ==
    Returned =>
        G.edges = UNION { { <<dep, ddl_dict[i].key>> :
                              dep \in extract_dependencies(ddl_dict[i].val) } :
                          i \in DOMAIN ddl_dict }

\* C3 witness: the diamond, resolved, with its four edges.
C3_Witness ==
    /\ pc = "done" /\ catalog = CatDiamond
    /\ G.edges = {<<nD, nB>>, <<nD, nC>>, <<nB, nA>>, <<nC, nA>>}

\* A fetch of the view definition of n came back with no definition.
ViewAbsent(n) ==
    \E i \in FetchesOf("view", n) :
        \/ calls[i].outcome = "throws"
        \/ calls[i].outcome = "ok" /\ ~Truthy(fetch_view_definition(catalog, n))

\* C4: a resolved name whose view lookup gave no definition and whose table
\* lookup gave columns is mapped to exactly those columns in
\* table_metadata_dict and has no entry in ddl_dict.
C4_TableFallback ==
    \A i \in DOMAIN calls :
        LET c == calls[i]
            cols == fetch_table_metadata(catalog, c.args[1], c.args[2])
        IN  (c.fn = "table" /\ c.outcome = "ok" /\ ViewAbsent(c.name)
                /\ cols.some /\ cols.val # <<>>)
            => /\ EntryCount(table_metadata_dict, c.name) = 1
               /\ DictGet(table_metadata_dict, c.name) = cols.val
               /\ c.name \notin KeySet(ddl_dict)

\* C4 witness: s.o has no view definition and three columns, and is recorded.
C4_Witness ==
    /\ ViewAbsent(nSO)
    /\ nSO \in KeySet(table_metadata_dict)
    /\ DictGet(table_metadata_dict, nSO) = cols3
    /\ nSO \notin KeySet(ddl_dict)

\* C5: the table lookup of a name without a dot is made in the schema "dbc"
\* with the name as the table; the lookup of a name with a dot is made with
\* the part before its first dot as the schema and the rest as the table.
C5_SchemaSplit ==
    \A i \in DOMAIN calls :
        LET c == calls[i]
        IN  c.fn = "table" =>
              IF HasDot(c.name)
              THEN /\ c.args[1] \o <<".">> \o c.args[2] = c.name
                   /\ ~HasDot(c.args[1])
              ELSE c.args = << <<"d", "b", "c">>, c.name >>

\* C5 witness: o was looked up as (dbc, o), s.o as (s, o), a.b.c as (a, b.c).
C5_Witness ==
    /\ \E i \in FetchesOf("table", nO) : calls[i].args = << <<"d","b","c">>, <<"o">> >>
    /\ \E i \in FetchesOf("table", nSO) : calls[i].args = << <<"s">>, <<"o">> >>
    /\ \E i \in FetchesOf("table", nABC) : calls[i].args = << <<"a">>, <<"b",".","c">> >>

\* The catalog knows the name neither as a view nor as a table.
Dangling(n) ==
    /\ ~IsView(n)
    /\ ~fetch_table_metadata(catalog, SplitName(n)[1], SplitName(n)[2]).some

\* C6: a name absent from both lookups is visited and recorded nowhere, no
\* advisory is raised for a name whose fetches all answered, and when the
\* builder has returned every dependency of every recorded view was visited
\* and, if no fetch threw, everything the root reaches is recorded as the
\* catalog has it.
C6_DanglingDropped ==
    /\ \A n \in visited :
          Dangling(n) => n \notin KeySet(ddl_dict) \cup KeySet(table_metadata_dict)
    /\ \A e \in Range(errors) :
          \E i \in DOMAIN calls : calls[i].name = e.name /\ calls[i].outcome # "ok"
    /\ Returned =>
          /\ \A i \in DOMAIN ddl_dict :
                extract_dependencies(ddl_dict[i].val) \subseteq visited
          /\ Threw = {} =>
                \A n \in Closure({view_name}) :
                    /\ n \in visited
                    /\ IsView(n) => n \in KeySet(ddl_dict)
                    /\ (~IsView(n) /\ ~Dangling(n)) => n \in KeySet(table_metadata_dict)

\* C6 witness: ghost is referenced by A, absent from both lookups, and the
\* other dependencies of A are recorded.
C6_Witness ==
    /\ pc = "done" /\ catalog = CatFallback /\ view_name = nA /\ errors = <<>>
    /\ nGhost \in visited /\ Dangling(nGhost)
    /\ {nSO, nO} \subseteq KeySet(table_metadata_dict)
    /\ nB \in KeySet(ddl_dict)

\* The fetch returned a view definition.
GaveDefinition(c) ==
    c.fn = "view" /\ c.outcome = "ok" /\ Truthy(fetch_view_definition(catalog, c.name))

\* The views in the order in which the traversal discovered them.
DiscoveredViews ==
    LET hits == SelectSeq(calls, GaveDefinition)
    IN  [i \in DOMAIN hits |-> hits[i].name]

Reverse(s) == [i \in DOMAIN s |-> s[Len(s) + 1 - i]]

\* C7 (as stated): the view sections start with the root, and for the chain
\* A -> B -> C they are [A, B, C].
C7_RootFirst ==
    (pc = "done" /\ view_name \in KeySet(ddl_dict)) =>
        /\ report.views[1] = view_name
        /\ (catalog = CatChain /\ view_name = nA /\ Threw = {}) =>
              report.views = <<nA, nB, nC>>

\* C7 (amended): the view sections are in reverse discovery order, which
\* puts the root last and the view discovered last first; for the chain
\* A -> B -> C they are [C, B, A].
C7_RootLast ==
    (pc = "done" /\ report.kind = "report") =>
        /\ report.views = Reverse(DiscoveredViews)
        /\ view_name \in KeySet(ddl_dict) =>
              report.views[Len(report.views)] = view_name
        /\ (catalog = CatChain /\ view_name = nA /\ Threw = {}) =>
              report.views = <<nC, nB, nA>>

\* C7 witness: the chain A -> B -> C rendered.
C7_Witness ==
    /\ pc = "done" /\ catalog = CatChain /\ view_name = nA /\ Threw = {}
    /\ Len(report.views) = 3

\* Every dependency of every recorded view has been visited.
DependenciesVisited ==
    \A i \in DOMAIN ddl_dict : extract_dependencies(ddl_dict[i].val) \subseteq visited

\* The name is recorded as the catalog has it.
RecordedAsInCatalog(n) ==
    /\ IsView(n) => n \in KeySet(ddl_dict)
    /\ (~IsView(n) /\ ~Dangling(n)) => n \in KeySet(table_metadata_dict)

\* C8 (as stated): whichever way a fetch fails, nothing propagates out of
\* build_full_lineage, and the builder returns with every dependency of the
\* recorded views resolved.
C8_FailureAbsorbed ==
    \A i \in DOMAIN calls :
        calls[i].outcome # "ok" =>
            /\ pc # "stopped"
            /\ Returned => DependenciesVisited

\* C8 (amended): a query that throws is absorbed at the fetch with an
\* advisory, affects only the name being fetched, and the builder returns
\* with every dependency of the recorded views resolved; when no connection
\* can be obtained st.stop() ends the run at that fetch: it is the last
\* fetch, build_full_lineage does not return and nothing is rendered.
C8_ThrowAbsorbedStopEnds ==
    /\ \A i \in DOMAIN calls :
          /\ calls[i].outcome = "throws" =>
                /\ pc # "stopped" \/ i < Len(calls)
                /\ \E e \in Range(errors) :
                      e.name = calls[i].name /\ e.at = calls[i].fn
          /\ calls[i].outcome = "noconn" => i = Len(calls) /\ pc = "stopped"
    /\ pc = "stopped" =>
          /\ calls # <<>> /\ calls[Len(calls)].outcome = "noconn"
          /\ report.kind = "none"
    /\ Returned =>
          /\ DependenciesVisited
          /\ \A n \in visited :
                (\A i \in DOMAIN calls : calls[i].name = n => calls[i].outcome = "ok")
                    => RecordedAsInCatalog(n)

\* C8 witness: a fetch threw, later fetches answered, and the request was
\* rendered.
C8_Witness ==
    /\ pc = "done" /\ report.kind = "report"
    /\ \E i, j \in DOMAIN calls :
          /\ i < j /\ calls[i].outcome = "throws" /\ calls[j].outcome = "ok"
          /\ calls[j].name \in KeySet(table_metadata_dict) \cup KeySet(ddl_dict)

\* The root has neither a view record nor a table record.
RootUnresolved ==
    view_name \notin KeySet(ddl_dict) \cup KeySet(table_metadata_dict)

\* C9 (as stated): a request that has ended shows the warning exactly when
\* the root has neither a view record nor a table record.
C9_WarningIffUnresolved ==
    pc \in {"done", "stopped"} => (report.kind = "warning" <=> RootUnresolved)

\* C9 (amended): a request that st.stop() did not end shows the warning, and
\* no section, exactly when the root has neither record, and the report
\* otherwise; a request that st.stop() ended shows neither.
C9_WarningIffUnresolvedUnlessStopped ==
    /\ pc = "done" =>
          /\ report.kind = "warning" <=> RootUnresolved
          /\ report.kind = "report" <=> ~RootUnresolved
          /\ report.kind = "warning" => report.views = <<>> /\ report.tables = <<>>
    /\ pc = "stopped" => report.kind = "none"

\* C9 witness: a request rendered as the warning, with no fetch failing.
C9_Witness ==
    pc = "done" /\ report.kind = "warning" /\ errors = <<>> /\ visited = {view_name}

\* C10: when build_full_lineage has returned, the root and every other
\* visited name are nodes of the graph.
C10_VisitedAreNodes ==
    Returned => ({view_name} \cup visited) \subseteq G.nodes

\* The schema and object a name stands for: a bare name stands for the
\* object of that name in the fallback schema.
Normalized(n) == SplitName(n)

\* C11: a bare name and the same name qualified with the fallback schema are
\* one name: among the visited names and the nodes of the graph no two
\* distinct names stand for the same object, at most one record is held
\* between them, and no table metadata is fetched twice for the same schema
\* and object.
C11_NormalizedNamesAreOne ==
    /\ \A n, m \in visited \cup G.nodes :
          Normalized(n) = Normalized(m) => n = m
    /\ \A n, m \in KeySet(ddl_dict) \cup KeySet(table_metadata_dict) :
          Normalized(n) = Normalized(m) => n = m
    /\ \A i, j \in DOMAIN calls :
          calls[i].fn = "table" /\ calls[j].fn = "table"
              /\ calls[i].args = calls[j].args => i = j

\* Every fetch of the request answered.
Undisturbed == \A i \in DOMAIN calls : calls[i].outcome = "ok"

\* What the catalog alone says a request for the root finds: the views and
\* the tables the root reaches, and the references between them.
ViewsReached(root) == { n \in Closure({root}) : IsView(n) }

TablesReached(root) == { n \in Closure({root}) : ~IsView(n) /\ ~Dangling(n) }

EdgesReached(root) ==
    UNION { { <<dep, v>> : dep \in DepsOf(v) } : v \in ViewsReached(root) }

\* C12: every request, the first of a session or a later one, starts from an
\* empty visited set, graph, ddl_dict and table_metadata_dict, and when it
\* ends with every fetch answered, what it visited, recorded, linked and
\* rendered is what the catalog says for its root, whatever was requested
\* before.
C12_FreshPerRequest ==
    /\ [][(pc # "resolving" /\ pc' = "resolving") =>
            /\ visited' = {} /\ G' = EmptyGraph
            /\ ddl_dict' = <<>> /\ table_metadata_dict' = <<>>]_vars
    /\ []((pc = "done" /\ Undisturbed) =>
            /\ visited = Closure({view_name})
            /\ KeySet(ddl_dict) = ViewsReached(view_name)
            /\ KeySet(table_metadata_dict) = TablesReached(view_name)
            /\ G.edges = EdgesReached(view_name)
            /\ (report.kind = "report") <=>
                  (ViewsReached(view_name) \cup TablesReached(view_name) # {}))

\* C12 witness: a later request of a session has ended, all its fetches
\* answered, with views and tables recorded.
C12_Witness ==
    /\ rerun /\ pc = "done" /\ Undisturbed
    /\ ddl_dict # <<>> /\ table_metadata_dict # <<>>

\* The list holds no name twice.
NoRepeats(l) == \A i, j \in DOMAIN l : l[i] = l[j] => i = j

C14_ViewOrTable ==
    /\ KeySet(ddl_dict) \cap KeySet(table_metadata_dict) = {}
    /\ \A n \in KeySet(ddl_dict) :
          /\ \E i \in FetchesOf("view", n) : GaveDefinition(calls[i])
          /\ DictGet(ddl_dict, n) = fetch_view_definition(catalog, n).val
          /\ FetchesOf("table", n) = {}
    /\ \A n \in KeySet(table_metadata_dict) :
          /\ ViewAbsent(n)
          /\ \A i \in FetchesOf("view", n) : ~GaveDefinition(calls[i])

\* C14 witness: a request has ended with a view recorded whose name is also
\* the name of a table of the fallback schema, and with tables recorded.
C14_Witness ==
    /\ pc = "done"
    /\ table_metadata_dict # <<>>
    /\ \E n \in KeySet(ddl_dict) :
          fetch_table_metadata(catalog, SplitName(n)[1], SplitName(n)[2]).some

\* The name of the fetch is the next to be looked up as a table, or was
\* looked up as a table by the fetch that followed.
ThenLookedUpAsTable(i) ==
    IF i = Len(calls)
    THEN stack # <<>> /\ Top = TableFrame(calls[i].name)
    ELSE /\ calls[i + 1].fn = "table"
         /\ calls[i + 1].name = calls[i].name
         /\ calls[i + 1].args = SplitName(calls[i].name)

RecordedDeps(n) ==
    IF n \in KeySet(ddl_dict)
    THEN extract_dependencies(DictGet(ddl_dict, n))
    ELSE {}

\* The names whose call is in progress at the first k frames of the stack.
InProgress(k) == { stack[j].name : j \in 1..k }

\* The subtree of a set of names: what they reach without going through a
\* name of X.
RECURSIVE SubtreeOf(_, _)
SubtreeOf(S, X) ==
    LET T == S \cup UNION { RecordedDeps(n) : n \in S \ X }
    IN  IF T = S THEN S ELSE SubtreeOf(T, X)

\* The call for the name has returned: it was visited, no frame is left of
\* it, and the edges from its dependencies are in the graph.
Resolved(n) ==
    /\ n \in visited
    /\ \A j \in DOMAIN stack : stack[j].name = n => stack[j].kind = "call"
    /\ \A dep \in RecordedDeps(n) : <<dep, n>> \in G.edges

\* C16: the traversal is sequential and depth-first: a step makes at most one
\* fetch, and whenever a loop over the dependencies of a view stands, in
\* progress or about to add the edge to its next dependency, each dependency
\* it has iterated is either the one whose call runs right above it or has its
\* whole subtree resolved: every name the dependency reaches without going
\* through a call still in progress is visited and its call has returned.
C16_DepthFirst ==
    /\ [][Len(calls') <= Len(calls) + 1]_vars
    /\ [](\A k \in DOMAIN stack :
            stack[k].kind = "loop" =>
                \A dep \in RecordedDeps(stack[k].name) \ stack[k].todo :
                    \/ k < Len(stack) /\ stack[k + 1].name = dep
                    \/ \A n \in SubtreeOf({dep}, InProgress(k)) :
                          \/ n \in InProgress(k) /\ n \in visited
                          \/ Resolved(n))

\* C16 witness: A references B and C, and B references A back and the table
\* D; the loop of A is about to add the edge to C, which is not visited yet,
\* and B and D below it are resolved.
C16_Witness ==
    /\ catalog = CatBack
    /\ stack = <<LoopFrame(nA, {nC})>>
    /\ nC \notin visited
    /\ Resolved(nB) /\ Resolved(nD)
    /\ nD \in KeySet(table_metadata_dict)

\* The fetch returned the columns of a table.
GaveColumns(c) ==
    /\ c.fn = "table" /\ c.outcome = "ok"
    /\ fetch_table_metadata(catalog, c.args[1], c.args[2]).some

\* The tables in the order in which the traversal discovered them.
DiscoveredTables ==
    LET hits == SelectSeq(calls, GaveColumns)
    IN  [i \in DOMAIN hits |-> hits[i].name]

\* C17: the table sections of a rendered report are the names with table
\* metadata in the order in which the traversal found their columns, which
\* is the order of their insertion into table_metadata_dict.
C17_TablesInDiscoveryOrder ==
    /\ Keys(table_metadata_dict) = DiscoveredTables
    /\ (pc = "done" /\ report.kind = "report") =>
          report.tables = DiscoveredTables

\* C17 witness: a report rendered with three table sections.
C17_Witness ==
    /\ pc = "done" /\ report.kind = "report"
    /\ Len(report.tables) = 3
    /\ report.tables = DiscoveredTables

\* The two names differ, and only in the case of their letters.
SameButCase(n, m) ==
    /\ n # m
    /\ [i \in DOMAIN n |-> ToLower(n[i])] = [i \in DOMAIN m |-> ToLower(m[i])]

\* The names the recorded definitions reference.
Referenced == UNION { extract_dependencies(ddl_dict[i].val) : i \in DOMAIN ddl_dict }

\* What is recorded under the name is what the catalog holds under exactly
\* that name.
RecordedOwn(n) ==
    /\ RecordedAsInCatalog(n)
    /\ n \in KeySet(ddl_dict) =>
          DictGet(ddl_dict, n) = fetch_view_definition(catalog, n).val
    /\ n \in KeySet(table_metadata_dict) =>
          DictGet(table_metadata_dict, n) =
              fetch_table_metadata(catalog, SplitName(n)[1], SplitName(n)[2]).val

\* C18: when build_full_lineage has returned, two referenced names that
\* differ only in case are both visited and both nodes of the graph, each had
\* its own fetch of the definition under the name as written, and, when every
\* fetch answered, each is recorded with what the catalog holds under its own
\* name.
C18_CaseSensitive ==
    Returned =>
        \A n, m \in Referenced :
            SameButCase(n, m) =>
                /\ {n, m} \subseteq visited
                /\ {n, m} \subseteq G.nodes
                /\ \E i \in FetchesOf("view", n) : calls[i].args = <<n>>
                /\ \E j \in FetchesOf("view", m) : calls[j].args = <<m>>
                /\ Undisturbed => RecordedOwn(n) /\ RecordedOwn(m)

\* C18 witness: a view selects from T and from t; the request has ended with
\* both recorded as tables, each with its own columns.
C18_Witness ==
    /\ pc = "done" /\ SameButCase(nT, nLowT)
    /\ {nT, nLowT} \subseteq Referenced
    /\ {nT, nLowT} \subseteq KeySet(table_metadata_dict)
    /\ DictGet(table_metadata_dict, nT) # DictGet(table_metadata_dict, nLowT)

\* The piece occurs in the text.
Contains(text, piece) ==
    \E i \in 1..(Len(text) + 1 - Len(piece)) :
        SubSeq(text, i, i + Len(piece) - 1) = piece

\* The text has a FROM or a JOIN clause on the name itself.
HasClauseOn(text, n) ==
    \/ Contains(text, From(n)) \/ Contains(text, Join(n))
    \/ Contains(text, LowFrom(n)) \/ Contains(text, LowJoin(n))

\* C19 (as stated): for a text with a derived table FROM ( ... ) AS x, the
\* names extract_dependencies returns include the alias x.
C19_AliasExtracted ==
    dependencies.some =>
        \A d \in DerivedTables :
            Contains(view_sql_arg, DerivedClause(d)) =>
                d.alias \in Range(dependencies.val)

\* C19 (amended): for a text with a derived table FROM (SELECT * FROM t) AS
\* x, the names extract_dependencies returns include t, the name after the
\* FROM inside the parentheses, and they include the alias x only when the
\* text has a FROM or JOIN clause on x itself.
C19_AliasNotExtracted ==
    dependencies.some =>
        \A d \in DerivedTables :
            Contains(view_sql_arg, DerivedClause(d)) =>
                /\ d.inner \in Range(dependencies.val)
                /\ d.alias \in Range(dependencies.val)
                      <=> HasClauseOn(view_sql_arg, d.alias)

\* C19 witness: SELECT * FROM (SELECT * FROM B) AS x has been given to
\* extract_dependencies, which returned B alone.
C19_Witness ==
    /\ view_sql_arg = SelectStar \o FromDerived(SelectStar \o From(nB), nX)
    /\ dependencies = Some(<<nB>>)

\* C20: when build_full_lineage(root) has returned and every fetch answered,
\* visited is the least set that holds the root and, with each view, the
\* names extracted from its definition: it holds nothing but the root and
\* dependencies of visited views; and visited, the keys of ddl_dict and of
\* table_metadata_dict and the edges are what the catalog gives for the root,
\* in whichever order the dependencies of each view were iterated.
C20_LeastClosedSet ==
    (Returned /\ Undisturbed) =>
        /\ view_name \in visited
        /\ \A n \in visited : DepsOf(n) \subseteq visited
        /\ \A n \in visited \ {view_name} :
              \E v \in visited : IsView(v) /\ n \in DepsOf(v)
        /\ visited = Closure({view_name})
        /\ KeySet(ddl_dict) = ViewsReached(view_name)
        /\ KeySet(table_metadata_dict) = TablesReached(view_name)
        /\ G.edges = EdgesReached(view_name)

\* C20 witness: the diamond A -> B, C -> D resolved with C iterated before
\* B, the other order than that of the text of A.
C20_Witness ==
    /\ Returned /\ Undisturbed
    /\ catalog = CatDiamond /\ view_name = nA
    /\ DiscoveredViews = <<nA, nC, nB>>
    /\ visited = {nA, nB, nC, nD}

\* The names with a record of either kind.
Recorded == KeySet(ddl_dict) \cup KeySet(table_metadata_dict)

\* C21: in every state of a resolution every key of ddl_dict and of
\* table_metadata_dict is visited and every edge (dep, v) of the graph ends
\* in a key v of ddl_dict, and once the resolution has ended, returned or
\* stopped, every recorded name other than the root is the dependency end of
\* an edge.
C21_RecordsEdgesVisited ==
    /\ Recorded \subseteq visited
    /\ \A e \in G.edges : e[2] \in KeySet(ddl_dict)
    /\ (Returned \/ pc = "stopped") =>
          \A n \in Recorded \ {view_name} : \E e \in G.edges : e[1] = n

\* C21 witness: a request has ended with two views and a table recorded
\* besides the root, each the dependency end of an edge.
C21_Witness ==
    /\ pc = "done"
    /\ Len(ddl_dict) >= 3 /\ table_metadata_dict # <<>>
    /\ \A n \in Recorded \ {view_name} : \E e \in G.edges : e[1] = n

\* The saves made for a source type, and the first save of each name.
StoresOf(s) == { i \in DOMAIN stored : stored[i].source = s }

FirstStore(s, c) ==
    CHOOSE i \in StoresOf(s) :
        /\ stored[i].conn = c
        /\ \A j \in StoresOf(s) : stored[j].conn = c => i <= j

\* C22: after any sequence of saves, the list of saved connections of each
\* source type holds exactly the names saved for that source type, each once,
\* in the order of their first save; and a save leaves the lists of the other
\* source types as they were, and its own list too when the name was listed.
C22_SavedConnections ==
    /\ [](\A s \in SourceTypes :
            LET conns == get_saved_connections(session_state, s)
            IN  /\ Range(conns) = { stored[i].conn : i \in StoresOf(s) }
                /\ NoRepeats(conns)
                /\ \A a, b \in DOMAIN conns :
                      a < b => FirstStore(s, conns[a]) < FirstStore(s, conns[b]))
    /\ [][Len(stored') = Len(stored) + 1 =>
            \A s \in SourceTypes :
                LET before == get_saved_connections(session_state, s)
                    last   == stored'[Len(stored')]
                IN  (s # last.source \/ last.conn \in Range(before)) =>
                        get_saved_connections(session_state', s) = before]_vars

\* C22 witness: a name, then another, then the first again were saved for
\* teradata, and the list read back holds the two in that order.
C22_Witness ==
    /\ Len(stored) = 3
    /\ \A i \in 1..3 : stored[i].source = "teradata"
    /\ stored[1].conn = "a_b" /\ stored[2].conn = "a" /\ stored[3].conn = "a_b"
    /\ answer.fn = "get_saved_connections" /\ answer.source = "teradata"
    /\ answer.conns = <<"a_b", "a">>

\* The saves that stored the key for the connection.
StoresFor(s, c, k) ==
    { i \in StoresOf(s) : stored[i].conn = c /\ k \in DOMAIN stored[i].kwargs }

\* The value the latest of them stored, "" when there is none.
LastStored(s, c, k) ==
    LET saves == StoresFor(s, c, k)
    IN  IF saves = {} THEN ""
        ELSE stored[CHOOSE i \in saves : \A j \in saves : j <= i].kwargs[k]

\* C23: after any sequence of saves, get_credentials returns for each key of
\* a source type and connection name the value of the latest save of that
\* source type, name and key, and "" when there was none; and a save leaves
\* what is returned for every other source type and name as it was.
C23_LatestStored ==
    /\ [](\A s \in SourceTypes, c \in ReadNames :
            get_credentials(session_state, s, c, KeysOf[s])
                = [k \in Range(KeysOf[s]) |-> LastStored(s, c, k)])
    /\ [][Len(stored') = Len(stored) + 1 =>
            LET last == stored'[Len(stored')]
            IN  \A s \in SourceTypes, c \in ReadNames :
                    (s # last.source \/ c # last.conn) =>
                        get_credentials(session_state', s, c, KeysOf[s])
                            = get_credentials(session_state, s, c, KeysOf[s])]_vars

\* C23 witness: teradata credentials were saved as "a", then others as
\* "a_b", then "a" was saved again with new values; what is read for "a" is
\* the new values.
C23_Witness ==
    /\ Len(stored) = 3
    /\ \A i \in 1..3 : stored[i].source = "teradata"
    /\ stored[1].conn = "a" /\ stored[1].kwargs = Filled("teradata", "1")
    /\ stored[2].conn = "a_b"
    /\ stored[3].conn = "a" /\ stored[3].kwargs = Filled("teradata", "2")
    /\ answer.fn = "get_credentials"
    /\ answer.source = "teradata" /\ answer.conn = "a"
    /\ answer.creds = Filled("teradata", "2")

=============================================================================
